---- MODULE Spec2Model ----
(***************************************************************************)
(* Model of update.py (PyFunceble/user_agents): the UserAgentsUpdater      *)
(* class and the __main__ run.                                             *)
(*                                                                         *)
(*   Spec      runs of __main__: staleness gate, fetch + extraction, cache *)
(*             write, generate_user_agents, under a non-decreasing clock   *)
(*   SpecGen   generate_user_agents over every bounded sequence of cached  *)
(*             records                                                     *)
(*   SpecNorm  normalize_os / normalize_browser over bounded free texts    *)
(***************************************************************************)
EXTENDS Integers, Sequences, FiniteSets, TLC

VARIABLES
    pc,               \* position of the process
    clock,            \* datetime.utcnow(), in seconds
    ticks,            \* number of clock advances so far (bounded)
    runs,             \* number of runs of __main__ started so far (bounded)
    cacheFile,        \* content of CACHE_FILE on disk
    outputFile,       \* content of OUTPUT_FILE on disk
    cacheAtStart,     \* CACHE_FILE as it was when the current run started
    outputAtStart,    \* OUTPUT_FILE as it was when the current run started
    gate,             \* outcome of self.authorized in the current run
    gateClock,        \* clock value self.authorized read
    fetchCalls,       \* calls of the decorated fetch_user_agents body, this run
    fetchResult,      \* what fetch_user_agents returned
    status,           \* HTTP status of the response of this run
    document,         \* div.container elements of the response of this run
    containers,       \* div.container elements still to be walked
    fetched_data,     \* fetch_user_agents' local of that name
    prevTimestamp,    \* @timestamp of the cache write before the latest one
    writes,           \* number of cache writes so far
    dicts,            \* heap of generate_user_agents: the dict objects
    lists,            \* heap of generate_user_agents: the list objects
    genInput,         \* records generate_user_agents iterates over, in order
    genDone,          \* number of records already processed
    result,           \* what generate_user_agents returned
    normInput,        \* free text handed to the normalizers
    normOs,           \* normalize_os(normInput)
    normBrowser       \* normalize_browser(normInput)

runVars  == <<pc, clock, ticks, runs, cacheFile, outputFile, cacheAtStart,
              outputAtStart, gate, gateClock, fetchCalls, fetchResult, status,
              document, containers, fetched_data, prevTimestamp, writes>>
genVars  == <<dicts, lists, genInput, genDone, result>>
normVars == <<normInput, normOs, normBrowser>>
vars     == <<runVars, genVars, normVars>>

(***************************************************************************)
(* Bounds of the model.                                                    *)
(***************************************************************************)
MaxFragments  == 3     \* fragments concatenated into a normalizer input
MaxRecords    == 2     \* cached records handed to generate_user_agents
MaxContainers == 1     \* div.container elements of a fetched document
MaxRuns       == 2     \* runs of __main__
MaxTicks      == 2     \* clock advances

(***************************************************************************)
(* Python str operations used by the source.                               *)
(***************************************************************************)
UpperChars == "ABCDEFGHIJKLMNOPQRSTUVWXYZ"
LowerChars == "abcdefghijklmnopqrstuvwxyz"

\* one character of str.lower()
LowerChar(c) ==
    IF \E i \in 1..26 : SubSeq(UpperChars, i, i) = c
    THEN LET i == CHOOSE j \in 1..26 : SubSeq(UpperChars, j, j) = c
         IN  SubSeq(LowerChars, i, i)
    ELSE c

\* str.lower()
RECURSIVE Lower(_)
Lower(s) == IF s = "" THEN "" ELSE LowerChar(SubSeq(s, 1, 1)) \o Lower(Tail(s))

\* `t in s` on two str
Contains(s, t) ==
    \E i \in 1..(Len(s) - Len(t) + 1) : SubSeq(s, i, i + Len(t) - 1) = t

\* index of the first occurrence of t in s, 0 when there is none (str.find + 1)
Find(s, t) ==
    IF Contains(s, t)
    THEN CHOOSE i \in 1..(Len(s) - Len(t) + 1) :
            /\ SubSeq(s, i, i + Len(t) - 1) = t
            /\ \A j \in 1..(i - 1) : SubSeq(s, j, j + Len(t) - 1) # t
    ELSE 0

\* s.split(sep, 1): one or two parts
Split1(s, sep) ==
    LET i == Find(s, sep)
    IN  IF i = 0 THEN <<s>>
        ELSE <<SubSeq(s, 1, i - 1), SubSeq(s, i + Len(sep), Len(s))>>

\* s.replace(old, "")
RECURSIVE Remove(_, _)
Remove(s, old) ==
    LET i == Find(s, old)
    IN  IF i = 0 THEN s
        ELSE SubSeq(s, 1, i - 1) \o Remove(SubSeq(s, i + Len(old), Len(s)), old)

IsSpace(c) == c = " "

RECURSIVE LStrip(_)
LStrip(s) == IF s # "" /\ IsSpace(SubSeq(s, 1, 1)) THEN LStrip(Tail(s)) ELSE s

RECURSIVE RStrip(_)
RStrip(s) ==
    IF s # "" /\ IsSpace(SubSeq(s, Len(s), Len(s)))
    THEN RStrip(SubSeq(s, 1, Len(s) - 1)) ELSE s

\* s.strip()
Strip(s) == RStrip(LStrip(s))

\* s.split()[0] of a str with a non-blank character
FirstToken(s) == Split1(LStrip(s), " ")[1]

(***************************************************************************)
(* normalize_browser and normalize_os.                                     *)
(***************************************************************************)
normalize_browser(browser) ==
    LET b == Lower(browser)
    IN  IF Contains(b, "chrome") \/ Contains(b, "google") THEN "chrome"
        ELSE IF Contains(b, "firefox") THEN "firefox"
        ELSE IF Contains(b, "safari") THEN "safari"
        ELSE IF Contains(b, "opera") THEN "opera"
        ELSE IF Contains(b, "other") THEN "other"
        ELSE IF Contains(b, "edge") THEN "edge"
        ELSE IF Contains(b, "samsung") THEN "samsung"
        ELSE IF Contains(b, "android") THEN "android"
        ELSE Lower(Split1(browser, " ")[1])

mac_os   == {"mac", "mac os", "macos", "macintosh"}
linux_os == {"linux", "ubuntu", "debian", "fedora", "centos", "redhat"}

\* the variant a swapped order of the first two checks would give
normalize_os_windows_first(os) ==
    LET o == Lower(os)
    IN  IF Contains(o, "windows") THEN "windows"
        ELSE IF \E x \in linux_os : Contains(o, x) THEN "linux"
        ELSE IF \E x \in mac_os : Contains(o, x) THEN "macosx"
        ELSE IF Contains(o, "ios") THEN "ios"
        ELSE IF Contains(o, "android") THEN "android"
        ELSE Lower(Split1(os, " ")[1])

normalize_os(os) ==
    LET o == Lower(os)
    IN  IF \E x \in linux_os : Contains(o, x) THEN "linux"
        ELSE IF Contains(o, "windows") THEN "windows"
        ELSE IF \E x \in mac_os : Contains(o, x) THEN "macosx"
        ELSE IF Contains(o, "ios") THEN "ios"
        ELSE IF Contains(o, "android") THEN "android"
        ELSE Lower(Split1(os, " ")[1])

(***************************************************************************)
(* Python dict objects: a dict is the sequence of its items [k, v] in      *)
(* insertion order.                                                        *)
(***************************************************************************)
Keys(d) == {d[i].k : i \in DOMAIN d}

\* `k in d`
Has(d, k) == k \in Keys(d)

\* d[k] of a present key
Get(d, k) == d[CHOOSE i \in DOMAIN d : d[i].k = k].v

\* d[k] = v
Put(d, k, v) ==
    IF Has(d, k)
    THEN [i \in DOMAIN d |-> IF d[i].k = k THEN [k |-> k, v |-> v] ELSE d[i]]
    ELSE Append(d, [k |-> k, v |-> v])

(***************************************************************************)
(* Values held by the objects of generate_user_agents. normalized_data is  *)
(* the dict object 1; dicts[i] and lists[i] are the objects named by       *)
(* DictRef(i) and ListRef(i), so that two keys may name one object.        *)
(***************************************************************************)
None       == [t |-> "none"]
Str(s)     == [t |-> "str", s |-> s]
DictRef(i) == [t |-> "dict", ref |-> i]
ListRef(i) == [t |-> "list", ref |-> i]

RootId == 1

necessary == <<"linux", "macosx", "windows", "win10">>

\* a heap: the dict objects, the list objects, and whether no exception was raised
Heap(ds, ls) == [ds |-> ds, ls |-> ls, ok |-> TRUE]
Raise(h)     == [h EXCEPT !.ok = FALSE]

\* normalized_data = {"@modern": {}}
InitialHeap ==
    Heap(<< <<[k |-> "@modern", v |-> DictRef(2)]>>, <<>> >>, <<>>)

\* the object normalized_data["@modern"] names
ModernId(h) == Get(h.ds[RootId], "@modern").ref

\* obj[k] = v on the dict object id
SetItem(h, id, k, v) == [h EXCEPT !.ds[id] = Put(@, k, v)]

\* lines 333-341: the browser entries are (re)created
CreateBrowser(h, b) ==
    IF ~Has(h.ds[RootId], b) \/ ~Has(h.ds[ModernId(h)], b)
    THEN LET n  == Len(h.ds)
             h1 == [h EXCEPT !.ds = Append(Append(@, <<>>), <<>>)]
             h2 == SetItem(h1, RootId, b, DictRef(n + 1))
         IN  SetItem(h2, ModernId(h2), b, DictRef(n + 2))
    ELSE h

\* lines 343-352: the OS entries are created
CreateOs(h, b, o) ==
    LET sel == Get(h.ds[RootId], b).ref
    IN  IF Has(h.ds[sel], o) THEN h
        ELSE LET h1 == SetItem(h, sel, o, None)
                 x  == Get(h1.ds[ModernId(h1)], b)
             IN  IF x.t # "dict" THEN Raise(h1)
                 ELSE SetItem([h1 EXCEPT !.ls = Append(@, <<>>)],
                              x.ref, o, ListRef(Len(h1.ls) + 1))

\* lines 354-356: the user agent is appended to the candidate list
AppendCandidate(h, b, o, rec) ==
    LET x == Get(h.ds[ModernId(h)], b)
    IN  IF x.t # "dict" THEN Raise(h)
        ELSE IF ~Has(h.ds[x.ref], o) THEN Raise(h)
        ELSE LET l == Get(h.ds[x.ref], o)
             IN  IF l.t # "list" \/ "useragent" \notin DOMAIN rec THEN Raise(h)
                 ELSE [h EXCEPT !.ls[l.ref] = Append(@, rec["useragent"])]

\* the list object normalized_data["@modern"][b][o] names
Candidates(h, b, o) ==
    h.ls[Get(h.ds[Get(h.ds[ModernId(h)], b).ref], o).ref]

\* lines 358-364: one candidate, secrets.choice's pick-th, becomes the selected one
Select(h, b, o, pick) ==
    SetItem(h, Get(h.ds[RootId], b).ref, o, Str(Candidates(h, b, o)[pick]))

\* lines 366-378: win10 is made to name what windows names
AliasWin10(h, b, o) ==
    IF o = "windows"
    THEN LET sel == Get(h.ds[RootId], b).ref
             h1  == SetItem(h, sel, "win10", Get(h.ds[sel], o))
             x   == Get(h1.ds[ModernId(h1)], b)
         IN  SetItem(h1, x.ref, "win10", Get(h1.ds[x.ref], o))
    ELSE h

\* lines 380-383: ie is made to name the dict object edge names
AliasIe(h, b) ==
    IF b = "edge"
    THEN SetItem(h, RootId, "ie", Get(h.ds[RootId], b))
    ELSE h

\* lines 333-356 for one record
AppendRecord(h, rec) ==
    LET b  == rec["normalized_browser"]
        o  == rec["normalized_os"]
        h1 == CreateOs(CreateBrowser(h, b), b, o)
    IN  IF h1.ok THEN AppendCandidate(h1, b, o, rec) ELSE h1

\* lines 358-383 for one record, after AppendRecord gave h
SelectRecord(h, rec, pick) ==
    LET b == rec["normalized_browser"]
        o == rec["normalized_os"]
    IN  AliasIe(AliasWin10(Select(h, b, o, pick), b, o), b)

\* `os not in v` of lines 389 and 397
NotIn(h, os, v) ==
    IF v.t = "dict" THEN ~Has(h.ds[v.ref], os) ELSE ~Contains(v.s, os)

\* lines 387-390: the empty candidate lists of the keys i.. of @modern, OS j..
RECURSIVE BackfillModern(_, _, _)
BackfillModern(h, i, j) ==
    LET modern == h.ds[ModernId(h)]
    IN  IF ~h.ok \/ i > Len(modern) THEN h
        ELSE IF j > Len(necessary) THEN BackfillModern(h, i + 1, 1)
        ELSE LET v == modern[i].v
             IN  IF v.t \notin {"dict", "str"} THEN Raise(h)
                 ELSE IF ~NotIn(h, necessary[j], v) THEN BackfillModern(h, i, j + 1)
                 ELSE IF v.t # "dict" THEN Raise(h)
                 ELSE BackfillModern(
                        SetItem([h EXCEPT !.ls = Append(@, <<>>)],
                                v.ref, necessary[j], ListRef(Len(h.ls) + 1)),
                        i, j + 1)

\* lines 392-398: the None selections of the keys i.. of normalized_data, OS j..
RECURSIVE BackfillSelected(_, _, _)
BackfillSelected(h, i, j) ==
    LET root == h.ds[RootId]
    IN  IF ~h.ok \/ i > Len(root) THEN h
        ELSE IF root[i].k = "@modern" \/ j > Len(necessary)
             THEN BackfillSelected(h, i + 1, 1)
        ELSE IF ~NotIn(h, necessary[j], root[i].v) THEN BackfillSelected(h, i, j + 1)
        ELSE BackfillSelected(SetItem(h, root[i].v.ref, necessary[j], None), i, j + 1)

\* the flawed variant that leaves the candidate lists as they are
Backfill_selected_only(h) == BackfillSelected(h, 1, 1)

\* lines 385-398
Backfill(h) == BackfillSelected(BackfillModern(h, 1, 1), 1, 1)

(***************************************************************************)
(* JSON documents: what DictHelper.to_json_file writes of an object, each  *)
(* reference replaced by the value of the object it names.                 *)
(***************************************************************************)
JDict(items) == [t |-> "dict", items |-> items]
JList(items) == [t |-> "list", items |-> items]

RECURSIVE ToJson(_, _)
ToJson(h, v) ==
    IF v.t = "dict"
    THEN JDict([i \in DOMAIN h.ds[v.ref] |->
                  [k |-> h.ds[v.ref][i].k, v |-> ToJson(h, h.ds[v.ref][i].v)]])
    ELSE IF v.t = "list" THEN JList(h.ls[v.ref])
    ELSE v

(***************************************************************************)
(* Files, timestamps and the cache.                                        *)
(***************************************************************************)
CACHE_EXPIRATION == 3600 * 24 * 7

\* a file holding the JSON document json, and the missing file
File(json)   == [exists |-> TRUE, json |-> json]
NoCacheFile  == [exists |-> FALSE, json |-> <<>>]
NoOutputFile == [exists |-> FALSE, json |-> JDict(<<>>)]

\* the flawed variant that keeps the date and drops the time of day
isoformat_date_only(t) == <<t \div 86400, 0>>

\* datetime.isoformat() and datetime.fromisoformat(): the date and the time of day
isoformat(t)     == <<t \div 86400, t % 86400>>
fromisoformat(s) == s[1] * 86400 + s[2]

\* read_cache: the cache dict, {} when the file is missing
read_cache(file) == IF file.exists THEN file.json ELSE <<>>

\* the cache dict fetch_user_agents writes (lines 236-239)
CacheData(now, data) ==
    <<[k |-> "@timestamp", v |-> isoformat(now)], [k |-> "data", v |-> data]>>

\* the flawed variant of the property: `>=` in place of `>`
authorized_at_expiration(file, now) ==
    LET cache == read_cache(file)
    IN  IF cache = <<>> THEN TRUE
        ELSE now - fromisoformat(Get(cache, "@timestamp")) >= CACHE_EXPIRATION

\* the property authorized, read at utcnow() = now
authorized(file, now) ==
    LET cache == read_cache(file)
    IN  IF cache = <<>> THEN TRUE
        ELSE now - fromisoformat(Get(cache, "@timestamp")) > CACHE_EXPIRATION

\* the records in the order of the three loops of lines 330-332; the keys of
\* the cache are taken to be read back in the order they were written in
\* (SpecGen covers the records in every order)
RECURSIVE FlattenGroups(_)
FlattenGroups(groups) ==
    IF groups = <<>> THEN <<>> ELSE Head(groups).v \o FlattenGroups(Tail(groups))

RECURSIVE FlattenData(_)
FlattenData(data) ==
    IF data = <<>> THEN <<>>
    ELSE FlattenGroups(Head(data).v) \o FlattenData(Tail(data))

(***************************************************************************)
(* generate_user_agents, one action per step.                              *)
(***************************************************************************)
\* lines 323-328: the cache is read; without one, {} is returned, nothing written
GenStart ==
    /\ pc = "generate"
    /\ LET cache == read_cache(cacheFile)
       IN  IF cache = <<>>
           THEN /\ pc' = "done"
                /\ result' = JDict(<<>>)
                /\ UNCHANGED <<dicts, lists, genInput, genDone>>
           ELSE /\ pc' = "gen_loop"
                /\ dicts' = InitialHeap.ds
                /\ lists' = InitialHeap.ls
                /\ genInput' = FlattenData(Get(cache, "data"))
                /\ genDone' = 0
                /\ UNCHANGED result
    /\ UNCHANGED <<clock, ticks, runs, cacheFile, outputFile, cacheAtStart,
                   outputAtStart, gate, gateClock, fetchCalls, fetchResult,
                   status, document, containers, fetched_data, prevTimestamp, writes>>
    /\ UNCHANGED normVars

\* lines 332-383: one iteration of the innermost loop
GenRecord ==
    /\ pc = "gen_loop"
    /\ genDone < Len(genInput)
    /\ LET rec == genInput[genDone + 1]
           h1  == AppendRecord(Heap(dicts, lists), rec)
       IN  IF h1.ok
           THEN \E pick \in 1..Len(Candidates(h1, rec["normalized_browser"],
                                              rec["normalized_os"])) :
                   LET h2 == SelectRecord(h1, rec, pick)
                   IN  /\ dicts' = h2.ds
                       /\ lists' = h2.ls
                       /\ pc' = "gen_loop"
           ELSE /\ dicts' = h1.ds
                /\ lists' = h1.ls
                /\ pc' = "crashed"
    /\ genDone' = genDone + 1
    /\ UNCHANGED <<clock, ticks, runs, cacheFile, outputFile, cacheAtStart,
                   outputAtStart, gate, gateClock, fetchCalls, fetchResult,
                   status, document, containers, fetched_data, prevTimestamp, writes>>
    /\ UNCHANGED <<genInput, result>>
    /\ UNCHANGED normVars

\* lines 385-402: the backfill, the write of OUTPUT_FILE and the return
GenFinish ==
    /\ pc = "gen_loop"
    /\ genDone = Len(genInput)
    /\ LET h == Backfill(Heap(dicts, lists))
       IN  /\ dicts' = h.ds
           /\ lists' = h.ls
           /\ IF h.ok
              THEN /\ pc' = "done"
                   /\ outputFile' = File(ToJson(h, DictRef(RootId)))
                   /\ result' = ToJson(h, DictRef(RootId))
              ELSE /\ pc' = "crashed"
                   /\ UNCHANGED <<outputFile, result>>
    /\ UNCHANGED <<clock, ticks, runs, cacheFile, cacheAtStart,
                   outputAtStart, gate, gateClock, fetchCalls, fetchResult,
                   status, document, containers, fetched_data, prevTimestamp, writes>>
    /\ UNCHANGED <<genInput, genDone>>
    /\ UNCHANGED normVars

(***************************************************************************)
(* SpecGen: generate_user_agents on every cache fetch_user_agents can have *)
(* written with up to MaxRecords records.                                  *)
(***************************************************************************)
BrowserTexts == {"Chrome 107", "Edge 107", "IE 11", "@modern"}
OsTexts      == {"Windows 10", "Win10", "Linux", "Android 13"}
UserAgents   == {"Mozilla/5.0 (X11)", "UA (linux macosx windows win10)"}

\* a record as lines 216-234 build it
Dataset(browser, os, ua) ==
    [browser |-> browser, os |-> os, useragent |-> ua,
     normalized_browser |-> normalize_browser(browser),
     normalized_os |-> normalize_os(os)]

Datasets == {Dataset(b, o, u) : b \in BrowserTexts, o \in OsTexts, u \in UserAgents}

RECURSIVE SeqsUpTo(_, _)
SeqsUpTo(S, n) ==
    IF n = 0 THEN {<<>>}
    ELSE SeqsUpTo(S, n - 1) \cup
         {Append(q, x) : q \in {r \in SeqsUpTo(S, n - 1) : Len(r) = n - 1}, x \in S}

\* what fetch_user_agents returned: nothing yet, the default, or cache_data
NotReturned     == [kind |-> "pending", data |-> <<>>]
ReturnedDefault == [kind |-> "default", data |-> <<>>]
Returned(data)  == [kind |-> "cache_data", data |-> data]

\* the values the variables of the runs have where no run is modelled
RunIdle ==
    /\ clock = 0
    /\ ticks = 0
    /\ runs = 0
    /\ outputFile = NoOutputFile
    /\ cacheAtStart = NoCacheFile
    /\ outputAtStart = NoOutputFile
    /\ gate = "none"
    /\ gateClock = 0
    /\ fetchCalls = 0
    /\ fetchResult = NotReturned
    /\ status = 0
    /\ document = <<>>
    /\ containers = <<>>
    /\ fetched_data = <<>>
    /\ prevTimestamp = <<>>
    /\ writes = 0

GenIdle ==
    /\ dicts = <<>>
    /\ lists = <<>>
    /\ genInput = <<>>
    /\ genDone = 0
    /\ result = JDict(<<>>)

NormIdle ==
    /\ normInput = ""
    /\ normOs = <<>>
    /\ normBrowser = <<>>

InitGen ==
    /\ pc = "generate"
    /\ cacheFile \in {NoCacheFile} \cup
          {File(CacheData(0, <<[k |-> "common", v |-> <<[k |-> "desktop", v |-> recs]>>]>>)) :
              recs \in SeqsUpTo(Datasets, MaxRecords)}
    /\ RunIdle
    /\ GenIdle
    /\ NormIdle

NextGen == GenStart \/ GenRecord \/ GenFinish

SpecGen == InitGen /\ [][NextGen]_vars

(***************************************************************************)
(* SpecNorm: the two normalizers on bounded free texts.                    *)
(***************************************************************************)
Fragments ==
    {"Windows", "WINDOWS", "Win", "dows", "Linux", "ubuntu", " ", "10",
     "Mac OS", "iOS", "Android"}

RECURSIVE Texts(_)
Texts(n) ==
    IF n = 0 THEN {""}
    ELSE Texts(n - 1) \cup {t \o f : t \in Texts(n - 1), f \in Fragments}

NormalizeOs ==
    /\ pc = "norm"
    /\ normOs = <<>>
    /\ normOs' = <<normalize_os(normInput)>>
    /\ UNCHANGED <<normInput, normBrowser>>
    /\ UNCHANGED <<runVars, genVars>>

NormalizeBrowser ==
    /\ pc = "norm"
    /\ normBrowser = <<>>
    /\ normBrowser' = <<normalize_browser(normInput)>>
    /\ UNCHANGED <<normInput, normOs>>
    /\ UNCHANGED <<runVars, genVars>>

InitNorm ==
    /\ pc = "norm"
    /\ normInput \in Texts(MaxFragments)
    /\ normOs = <<>>
    /\ normBrowser = <<>>
    /\ cacheFile = NoCacheFile
    /\ RunIdle
    /\ GenIdle

NextNorm == NormalizeOs \/ NormalizeBrowser

SpecNorm == InitNorm /\ [][NextNorm]_vars

(***************************************************************************)
(* fetch_user_agents: the walk of the fetched document (lines 181-234).    *)
(* A container is what BeautifulSoup finds in one div.container: whether   *)
(* it has an h2, the h2's id ("" when it has none), whether it has a thead *)
(* and a tbody, the texts of the th and of the td of each tr.              *)
(***************************************************************************)
Min(a, b) == IF a < b THEN a ELSE b

\* dict(zip(headers, [x.text.strip() for x in cells])): the last cell of a name wins
ZipRow(headers, cells) ==
    LET n == Min(Len(headers), Len(cells))
    IN  [k \in {headers[i] : i \in 1..n} |->
            Strip(cells[CHOOSE i \in 1..n :
                          /\ headers[i] = k
                          /\ \A j \in (i + 1)..n : headers[j] # k])]

\* d[k] = v on a dict of str
Assign(d, k, v) == [x \in DOMAIN d \cup {k} |-> IF x = k THEN v ELSE d[x]]

\* del d[k]
Delete(d, k) == [x \in DOMAIN d \ {k} |-> d[x]]

Failed == [ok |-> FALSE, v |-> <<>>]
Ok(v)  == [ok |-> TRUE, v |-> <<v>>]

\* lines 220-224: the combined column is split on its first comma
SplitOsBrowser(d) ==
    IF "os + browser" \in DOMAIN d
    THEN LET parts == Split1(d["os + browser"], ",")
         IN  IF Len(parts) # 2 THEN Failed
             ELSE Ok(Delete(Assign(Assign(d, "browser", Strip(parts[1])),
                                   "os", Strip(parts[2])),
                            "os + browser"))
    ELSE Ok(d)

\* lines 226-227: the device keeps its first token
TrimDevice(d) ==
    IF "device" \in DOMAIN d /\ Contains(d["device"], "more info")
    THEN Assign(d, "device", Strip(FirstToken(d["device"])))
    ELSE d

\* lines 229-232: the two normalized fields
Normalize(d) ==
    IF "browser" \notin DOMAIN d \/ "os" \notin DOMAIN d THEN Failed
    ELSE Ok(Assign(Assign(d, "normalized_browser", normalize_browser(d["browser"])),
                   "normalized_os", normalize_os(d["os"])))

\* lines 215-232: the record of one tr, or the exception it raises
ExtractRow(headers, cells) ==
    LET split == SplitOsBrowser(ZipRow(headers, cells))
    IN  IF split.ok THEN Normalize(TrimDevice(split.v[1])) ELSE Failed

\* lines 214-234: the records of the tr's are appended to records
RECURSIVE ExtractRows(_, _, _)
ExtractRows(headers, rows, records) ==
    IF rows = <<>> THEN Ok(records)
    ELSE LET r == ExtractRow(headers, Head(rows))
         IN  IF r.ok THEN ExtractRows(headers, Tail(rows), Append(records, r.v[1]))
             ELSE Failed

\* lines 191-193
NormalizedCategoryId(id) == Remove(Remove(id, "-useragents"), "most-")

\* lines 208-212: the two levels of fetched_data are created
EnsureGroup(fd, agent_type, device_group) ==
    LET fd1 == IF Has(fd, agent_type) THEN fd ELSE Put(fd, agent_type, <<>>)
        g   == Get(fd1, agent_type)
    IN  IF Has(g, device_group) THEN fd1
        ELSE Put(fd1, agent_type, Put(g, device_group, <<>>))

\* lines 182-234: one iteration of the loop over the containers
ExtractContainer(fd, c) ==
    IF ~c.h2 \/ c.id = "" THEN Ok(fd)
    ELSE IF ~Contains(c.id, "-useragent") THEN Ok(fd)
    ELSE LET parts == Split1(NormalizedCategoryId(c.id), "-")
         IN  IF Len(parts) # 2 THEN Failed
             ELSE IF ~c.thead THEN Failed
             ELSE IF \A i \in DOMAIN c.headers : c.headers[i] = "" THEN Ok(fd)
             ELSE IF ~c.tbody THEN Failed
             ELSE LET fd1  == EnsureGroup(fd, parts[1], parts[2])
                      g    == Get(fd1, parts[1])
                      recs == ExtractRows(c.headers, c.rows, Get(g, parts[2]))
                  IN  IF recs.ok
                      THEN Ok(Put(fd1, parts[1], Put(g, parts[2], recs.v[1])))
                      ELSE Failed

(***************************************************************************)
(* Spec: runs of __main__ (lines 405-426) against a server that may answer *)
(* any status with any document, under a clock that never goes back.       *)
(***************************************************************************)
Container(h2, id, thead, headers, tbody, rows) ==
    [h2 |-> h2, id |-> id, thead |-> thead, headers |-> headers,
     tbody |-> tbody, rows |-> rows]

Row1 == <<"Chrome 107, Windows 10", "Mozilla/5.0 (X11)">>
Row2 == <<"Edge 107", " Android 13 ", "Pixel 7 more info", "Mozilla/5.0 (Linux)">>

CombinedHeaders == <<"os + browser", "useragent">>
SplitHeaders    == <<"browser", "os", "device", "useragent">>

ContainerE2E ==
    Container(TRUE, "desktop-useragents", TRUE, CombinedHeaders, TRUE, <<Row1>>)
ContainerDesktop ==
    Container(TRUE, "most-common-desktop-useragents", TRUE, CombinedHeaders, TRUE, <<Row1>>)
ContainerMobile ==
    Container(TRUE, "most-common-mobile-useragents", TRUE, SplitHeaders, TRUE, <<Row2>>)
ContainerNoHeading ==
    Container(FALSE, "", TRUE, CombinedHeaders, TRUE, <<Row1>>)
ContainerAbout ==
    Container(TRUE, "about", FALSE, <<>>, FALSE, <<>>)
ContainerBlankHeaders ==
    Container(TRUE, "most-common-desktop-useragents", TRUE, <<"", "">>, TRUE, <<Row1>>)
ContainerNoComma ==
    Container(TRUE, "most-common-desktop-useragents", TRUE, CombinedHeaders, TRUE,
              <<Row1, <<"Chrome 107 Windows 10", "Mozilla/5.0 (X11)">> >>)
ContainerNoTable ==
    Container(TRUE, "most-common-desktop-useragents", FALSE, <<>>, FALSE, <<>>)

Containers ==
    {ContainerE2E, ContainerDesktop, ContainerMobile, ContainerNoHeading,
     ContainerAbout, ContainerBlankHeaders, ContainerNoComma, ContainerNoTable}

Documents == SeqsUpTo(Containers, MaxContainers)

\* HTTP statuses of the response: success, not found, server error
Statuses == {200, 404, 500}

\* seconds the clock advances by in one step
Deltas == {1, CACHE_EXPIRATION}

ClockStart == 2 * CACHE_EXPIRATION

\* the cache an earlier successful run wrote at time t
EarlierCache(t) ==
    File(CacheData(t, <<[k |-> "common", v |-> <<[k |-> "desktop", v |->
            <<Dataset("Chrome 107", "Windows 10", "Mozilla/5.0 (X11)")>>]>>]>>))

\* utcnow() moves on; it is read at lines 149 and 237 only, and the clock
\* advances before either read
Tick ==
    /\ pc = "gate" \/ (pc = "extract" /\ containers = <<>>)
    /\ ticks < MaxTicks
    /\ \E d \in Deltas : clock' = clock + d
    /\ ticks' = ticks + 1
    /\ UNCHANGED <<pc, runs, cacheFile, outputFile, cacheAtStart, outputAtStart,
                   gate, gateClock, fetchCalls, fetchResult, status, document,
                   containers, fetched_data, prevTimestamp, writes>>
    /\ UNCHANGED <<genVars, normVars>>

\* line 419: a run of __main__ starts, in a new process
StartRun ==
    /\ pc = "idle"
    /\ runs < MaxRuns
    /\ pc' = "gate"
    /\ runs' = runs + 1
    /\ cacheAtStart' = cacheFile
    /\ outputAtStart' = outputFile
    /\ gate' = "none"
    /\ fetchCalls' = 0
    /\ fetchResult' = NotReturned
    /\ status' = 0
    /\ document' = <<>>
    /\ containers' = <<>>
    /\ fetched_data' = <<>>
    /\ dicts' = <<>>
    /\ lists' = <<>>
    /\ genInput' = <<>>
    /\ genDone' = 0
    /\ result' = JDict(<<>>)
    /\ gateClock' = 0
    /\ UNCHANGED <<clock, ticks, cacheFile, outputFile, prevTimestamp, writes>>
    /\ UNCHANGED normVars

\* lines 109-112: the wrapper of execute_if_authorized(None)
Gate ==
    /\ pc = "gate"
    /\ gateClock' = clock
    /\ IF authorized(cacheFile, clock)
       THEN /\ gate' = "authorized"
            /\ pc' = "request"
            /\ UNCHANGED fetchResult
       ELSE /\ gate' = "blocked"
            /\ pc' = "generate"
            /\ fetchResult' = ReturnedDefault
    /\ UNCHANGED <<clock, ticks, runs, cacheFile, outputFile, cacheAtStart,
                   outputAtStart, fetchCalls, status, document, containers,
                   fetched_data, prevTimestamp, writes>>
    /\ UNCHANGED <<genVars, normVars>>

\* lines 169-177: the request is answered; response.text is parsed whatever the status
Request ==
    /\ pc = "request"
    /\ \E st \in Statuses, doc \in Documents :
          /\ status' = st
          /\ document' = doc
          /\ containers' = doc
    /\ fetchCalls' = fetchCalls + 1
    /\ fetched_data' = <<>>
    /\ pc' = "extract"
    /\ UNCHANGED <<clock, ticks, runs, cacheFile, outputFile, cacheAtStart,
                   outputAtStart, gate, gateClock, fetchResult, prevTimestamp,
                   writes>>
    /\ UNCHANGED <<genVars, normVars>>

\* line 170: requests.get raises (no connection, timeout)
RequestFails ==
    /\ pc = "request"
    /\ fetchCalls' = fetchCalls + 1
    /\ pc' = "crashed"
    /\ UNCHANGED <<clock, ticks, runs, cacheFile, outputFile, cacheAtStart,
                   outputAtStart, gate, gateClock, fetchResult, status, document,
                   containers, fetched_data, prevTimestamp, writes>>
    /\ UNCHANGED <<genVars, normVars>>

\* lines 181-234: one container is walked
Extract ==
    /\ pc = "extract"
    /\ containers # <<>>
    /\ LET r == ExtractContainer(fetched_data, Head(containers))
       IN  IF r.ok
           THEN /\ fetched_data' = r.v[1]
                /\ containers' = Tail(containers)
                /\ pc' = "extract"
           ELSE /\ pc' = "crashed"
                /\ UNCHANGED <<fetched_data, containers>>
    /\ UNCHANGED <<clock, ticks, runs, cacheFile, outputFile, cacheAtStart,
                   outputAtStart, gate, gateClock, fetchCalls, fetchResult, status,
                   document, prevTimestamp, writes>>
    /\ UNCHANGED <<genVars, normVars>>

\* lines 236-245: the cache is written and returned
WriteCache ==
    /\ pc = "extract"
    /\ containers = <<>>
    /\ cacheFile' = File(CacheData(clock, fetched_data))
    /\ prevTimestamp' = IF cacheFile.exists /\ Has(cacheFile.json, "@timestamp")
                        THEN <<Get(cacheFile.json, "@timestamp")>> ELSE <<>>
    /\ writes' = writes + 1
    /\ fetchResult' = Returned(CacheData(clock, fetched_data))
    /\ pc' = "generate"
    /\ UNCHANGED <<clock, ticks, runs, outputFile, cacheAtStart, outputAtStart,
                   gate, gateClock, fetchCalls, status, document, containers,
                   fetched_data>>
    /\ UNCHANGED <<genVars, normVars>>

\* the process ends: generate_user_agents returned, or an exception reached the top
EndRun ==
    /\ pc \in {"done", "crashed"}
    /\ runs < MaxRuns
    /\ pc' = "idle"
    /\ UNCHANGED <<clock, ticks, runs, cacheFile, outputFile, cacheAtStart,
                   outputAtStart, gate, gateClock, fetchCalls, fetchResult, status,
                   document, containers, fetched_data, prevTimestamp, writes>>
    /\ UNCHANGED <<genVars, normVars>>

Init ==
    /\ pc = "idle"
    /\ clock = ClockStart
    /\ ticks = 0
    /\ runs = 0
    /\ cacheFile \in {NoCacheFile,
                      EarlierCache(ClockStart - CACHE_EXPIRATION - 1),
                      EarlierCache(ClockStart - CACHE_EXPIRATION),
                      EarlierCache(ClockStart)}
    /\ outputFile = NoOutputFile
    /\ cacheAtStart = NoCacheFile
    /\ outputAtStart = NoOutputFile
    /\ gate = "none"
    /\ gateClock = 0
    /\ fetchCalls = 0
    /\ fetchResult = NotReturned
    /\ status = 0
    /\ document = <<>>
    /\ containers = <<>>
    /\ fetched_data = <<>>
    /\ prevTimestamp = <<>>
    /\ writes = 0
    /\ GenIdle
    /\ NormIdle

Next ==
    \/ Tick
    \/ StartRun
    \/ Gate
    \/ Request
    \/ RequestFails
    \/ Extract
    \/ WriteCache
    \/ GenStart
    \/ GenRecord
    \/ GenFinish
    \/ EndRun

Spec == Init /\ [][Next]_vars

(***************************************************************************)
(* Reading the JSON documents and the cache.                               *)
(***************************************************************************)
Missing == [t |-> "missing"]

\* j[k], Missing when j is no table or has no key k
JEntry(j, k) == IF j.t = "dict" /\ Has(j.items, k) THEN Get(j.items, k) ELSE Missing

\* the keys of the table j, none when j is no table
JKeys(j) == IF j.t = "dict" THEN Keys(j.items) ELSE {}

\* two tables hold the same value under the same keys
JSameTable(a, b) ==
    /\ a.t = "dict" /\ b.t = "dict"
    /\ JKeys(a) = JKeys(b)
    /\ \A k \in JKeys(a) : JEntry(a, k) = JEntry(b, k)

\* generate_user_agents returned a table built from a cache
Generated == pc = "done" /\ JEntry(result, "@modern") # Missing

Modern == JEntry(result, "@modern")

\* the browser keys of the selected (top-level) table
SelectedBrowsers == JKeys(result) \ {"@modern"}

\* the user agents of the records of recs with the pair (b, o), in order
RECURSIVE UserAgentsOf(_, _, _)
UserAgentsOf(recs, b, o) ==
    IF recs = <<>> THEN <<>>
    ELSE (IF Head(recs)["normalized_browser"] = b /\ Head(recs)["normalized_os"] = o
          THEN <<Head(recs)["useragent"]>> ELSE <<>>)
         \o UserAgentsOf(Tail(recs), b, o)

RecordsSeen == {genInput[i] : i \in DOMAIN genInput}

\* @timestamp of an existing cache file, in seconds
TimestampOf(file) == fromisoformat(Get(file.json, "@timestamp"))

(***************************************************************************)
(* C1 (Spec).                                                              *)
(***************************************************************************)
\* C1: the gate is Authorized when the cache has no timestamp (no cache), and
\* otherwise exactly when more than CACHE_EXPIRATION seconds passed since the
\* cache's timestamp; when it is Blocked, fetch_user_agents returns the default,
\* its body is never entered and the cache file is as the run found it.
C1_StalenessGate ==
    gate # "none" =>
       /\ gate = "authorized" <=>
             \/ ~cacheAtStart.exists
             \/ gateClock - TimestampOf(cacheAtStart) > CACHE_EXPIRATION
       /\ gate = "blocked" =>
             /\ fetchResult = ReturnedDefault
             /\ fetchCalls = 0
             /\ cacheFile = cacheAtStart

\* C1 witness: a run blocked exactly CACHE_EXPIRATION seconds after the
\* timestamp went on to its end without a fetch.
C1_Witness ==
    /\ gate = "blocked"
    /\ pc = "done"
    /\ gateClock - TimestampOf(cacheAtStart) = CACHE_EXPIRATION
    /\ fetchCalls = 0

(***************************************************************************)
(* C2 (Spec).                                                              *)
(***************************************************************************)
\* C2: in a run whose response status is neither success (200) nor not found
\* (404), the run aborts: it never gets past the fetch, and the cache file and
\* the output file stay as the run found them.
C2_FatalOnBadStatus ==
    status \notin {0, 200, 404} =>
       /\ pc \in {"extract", "crashed"}
       /\ cacheFile = cacheAtStart
       /\ outputFile = outputAtStart

(***************************************************************************)
(* C3 (SpecGen).                                                           *)
(***************************************************************************)
\* C3: after generate_user_agents, for every browser key, the win10 entry
\* equals the windows entry, in the selected table and in the @modern table.
C3_Win10EqualsWindows ==
    Generated =>
       /\ \A b \in SelectedBrowsers :
             JEntry(JEntry(result, b), "win10") = JEntry(JEntry(result, b), "windows")
       /\ \A b \in JKeys(Modern) :
             JEntry(JEntry(Modern, b), "win10") = JEntry(JEntry(Modern, b), "windows")

(***************************************************************************)
(* C4 (SpecGen).                                                           *)
(***************************************************************************)
\* C4: after generate_user_agents over records of which at least one has the
\* normalized browser edge, the ie entry of the selected table equals its edge
\* entry.
C4_IeEqualsEdge ==
    (Generated /\ \E r \in RecordsSeen : r["normalized_browser"] = "edge") =>
       JSameTable(JEntry(result, "ie"), JEntry(result, "edge"))

(***************************************************************************)
(* C5 (SpecGen).                                                           *)
(***************************************************************************)
\* C5: after generate_user_agents, for every (normalized_browser, normalized_os)
\* pair of the records, @modern[browser][os] is the sequence of the user agents
\* of all the records with that pair, in processing order.
C5_CandidatesAppendOnly ==
    Generated =>
       \A r \in RecordsSeen :
          JEntry(JEntry(Modern, r["normalized_browser"]), r["normalized_os"])
             = JList(UserAgentsOf(genInput, r["normalized_browser"], r["normalized_os"]))

(***************************************************************************)
(* C6 (SpecGen).                                                           *)
(***************************************************************************)
\* C6: after generate_user_agents, every browser key of the @modern table holds
\* exactly the four OS keys linux, macosx, windows and win10, each mapped to a
\* sequence.
C6_ExactlyFourOsKeys ==
    Generated =>
       \A b \in JKeys(Modern) :
          /\ JKeys(JEntry(Modern, b)) = {necessary[i] : i \in DOMAIN necessary}
          /\ \A o \in JKeys(JEntry(Modern, b)) : JEntry(JEntry(Modern, b), o).t = "list"

\* C6, amended: after generate_user_agents, every browser key of the @modern
\* table that holds a table of OS keys holds at least the four OS keys linux,
\* macosx, windows and win10, and every OS key of it is mapped to a sequence
\* (which may be empty).
C6_AtLeastFourOsKeys ==
    Generated =>
       \A b \in JKeys(Modern) :
          JEntry(Modern, b).t = "dict" =>
             /\ {necessary[i] : i \in DOMAIN necessary} \subseteq JKeys(JEntry(Modern, b))
             /\ \A o \in JKeys(JEntry(Modern, b)) :
                   JEntry(JEntry(Modern, b), o).t = "list"

\* C6 witness: a browser of the @modern table holds a fifth OS key, android,
\* with a candidate, next to an empty linux sequence.
C6_Witness ==
    /\ Generated
    /\ \E b \in JKeys(Modern) :
          /\ JEntry(JEntry(Modern, b), "android").t = "list"
          /\ JEntry(JEntry(Modern, b), "android") # JList(<<>>)
          /\ JEntry(JEntry(Modern, b), "linux") = JList(<<>>)

(***************************************************************************)
(* C7 (Spec).                                                              *)
(***************************************************************************)
\* C7: starting with no cache, a run over the document of one container with
\* heading id "desktop-useragents", header row ["os + browser", "useragent"]
\* and body row ["Chrome 107, Windows 10", UA] completes, the cache holds the
\* one record with browser "Chrome 107" and os "Windows 10", normalized to
\* chrome and windows, and the final table holds UA under chrome.windows and
\* chrome.win10.
C7_EndToEnd ==
    (/\ ~cacheAtStart.exists
     /\ document = <<ContainerE2E>>
     /\ pc \in {"done", "crashed"}) =>
       /\ pc = "done"
       /\ FlattenData(Get(cacheFile.json, "data"))
             = <<Dataset("Chrome 107", "Windows 10", Row1[2])>>
       /\ Dataset("Chrome 107", "Windows 10", Row1[2])["normalized_browser"] = "chrome"
       /\ Dataset("Chrome 107", "Windows 10", Row1[2])["normalized_os"] = "windows"
       /\ JEntry(JEntry(result, "chrome"), "windows") = Str(Row1[2])
       /\ JEntry(JEntry(result, "chrome"), "win10") = Str(Row1[2])

(***************************************************************************)
(* C8 (SpecNorm).                                                          *)
(***************************************************************************)
HasLinuxMarker(text) == \E x \in linux_os : Contains(Lower(text), x)
HasWindows(text)     == Contains(Lower(text), "windows")

\* C8: normalize_os gives windows for every input containing "windows" in any
\* case, also when a Linux distro marker occurs in the text, and linux for
\* every input containing a Linux distro marker.
C8_WindowsWins ==
    normOs # <<>> =>
       /\ HasWindows(normInput) => normOs[1] = "windows"
       /\ HasLinuxMarker(normInput) => normOs[1] = "linux"

\* C8, amended: normalize_os gives linux for every input containing a Linux
\* distro marker, also when the input contains "windows", and windows for
\* every input containing "windows" in any case and no Linux distro marker.
C8_LinuxWins ==
    normOs # <<>> =>
       /\ HasLinuxMarker(normInput) => normOs[1] = "linux"
       /\ (HasWindows(normInput) /\ ~HasLinuxMarker(normInput)) => normOs[1] = "windows"

\* C8 witness: normalize_os ran on a text with both "windows" and a Linux marker.
C8_Witness ==
    /\ normOs # <<>>
    /\ HasWindows(normInput)
    /\ HasLinuxMarker(normInput)

(***************************************************************************)
(* C9 (Spec).                                                              *)
(***************************************************************************)
\* C9: with a cache on disk, a call of fetch_user_agents made CACHE_EXPIRATION
\* seconds or less after its timestamp is Blocked and leaves the cache as it
\* is, and a cache write carries a timestamp more than CACHE_EXPIRATION
\* seconds after the timestamp of the cache it replaces.
C9_WritesAWeekApart ==
    /\ (cacheAtStart.exists /\ gate # "none"
          /\ gateClock - TimestampOf(cacheAtStart) <= CACHE_EXPIRATION) =>
             /\ gate = "blocked"
             /\ cacheFile = cacheAtStart
    /\ prevTimestamp # <<>> =>
          TimestampOf(cacheFile) - fromisoformat(prevTimestamp[1]) > CACHE_EXPIRATION

\* C9 witness: two runs of one behaviour wrote the cache.
C9_Witness ==
    /\ writes >= 2
    /\ prevTimestamp # <<>>

(***************************************************************************)
(* C10 (SpecGen).                                                          *)
(***************************************************************************)
\* C10: after generate_user_agents, for every browser key b of the @modern
\* table and every OS key o of the selected entry b, the selected value is
\* None exactly when @modern[b][o] is empty, and otherwise is one of the
\* strings of @modern[b][o].
C10_SelectedIsCandidate ==
    Generated =>
       \A b \in JKeys(Modern) :
          \A o \in JKeys(JEntry(result, b)) :
             LET selected   == JEntry(JEntry(result, b), o)
                 candidates == JEntry(JEntry(Modern, b), o)
             IN  /\ candidates.t = "list"
                 /\ selected = None <=> candidates.items = <<>>
                 /\ selected # None =>
                       /\ selected.t = "str"
                       /\ \E i \in DOMAIN candidates.items :
                             candidates.items[i] = selected.s

====
